---- MODULE Spec2Model ----
(***************************************************************************)
(* Model of veil_aio_au (src/veil_aio_au/veil_au.py): the VeilAuthPam      *)
(* command registry, the argument escaper, the process runner __run_cmd    *)
(* and the public operations built on it.                                  *)
(*                                                                         *)
(* Strings and byte strings are sequences of glyphs.  A glyph is either a  *)
(* character with a meaning to shlex or pathlib (" ", "'", "\"", "\\",     *)
(* "/", ".") or a run of ordinary characters ("user", "-u", "rm").         *)
(***************************************************************************)
EXTENDS Integers, Sequences, FiniteSets, TLC

VARIABLES auth, calls, procs, nextPid

vars == <<auth, calls, procs, nextPid>>

(***************************************************************************)
(* Python values                                                           *)
(***************************************************************************)
\* Python None where a str / bytes is expected
None == <<"<None>">>
\* a byte that is not valid UTF-8
BadByte == "\\xff"

\* truthiness of an Optional[str] / Optional[bytes]
Truthy(s) == s # None /\ s # <<>>

\* bytes.decode(): UTF-8, errors='strict'
DecodeOk(b) == \A i \in 1..Len(b) : b[i] # BadByte
Decode(b) == b

RECURSIVE JoinFrom(_, _)
JoinFrom(toks, i) ==
  IF i > Len(toks) THEN <<>>
  ELSE IF i = Len(toks) THEN toks[i]
  ELSE toks[i] \o <<" ">> \o JoinFrom(toks, i + 1)

\* ' '.join(cmd_args)
Join(toks) == JoinFrom(toks, 1)

\* 'flag {}'.format(v)
Format(flag, v) == <<flag, " ">> \o v

(***************************************************************************)
(* shlex.split(s): posix mode, whitespace_split, no comments.              *)
(* Lexer states as in shlex.read_token: " " (between tokens), "a" (in a    *)
(* word), a quote glyph (in quotes), "\\" (after an escape).               *)
(***************************************************************************)
Whitespace == {" "}
Quotes == {"'", "\""}
Escape == {"\\"}
EscapedQuotes == {"\""}

ShlexError == [ok |-> FALSE, toks |-> <<>>]

\* token emitted at a word boundary: empty tokens only when quoted
Emit(acc, token, quoted) ==
  IF token # <<>> \/ quoted THEN Append(acc, token) ELSE acc

RECURSIVE Lex(_, _, _, _, _, _, _)
Lex(s, i, state, escapedstate, token, quoted, acc) ==
  IF i > Len(s)
  THEN IF state \in Quotes THEN ShlexError
       ELSE IF state \in Escape THEN ShlexError
       ELSE [ok |-> TRUE, toks |-> Emit(acc, token, quoted)]
  ELSE LET ch == s[i] IN
    IF state = " " THEN
      IF ch \in Whitespace THEN Lex(s, i + 1, " ", escapedstate, <<>>, FALSE, acc)
      ELSE IF ch \in Escape THEN Lex(s, i + 1, ch, "a", token, quoted, acc)
      ELSE IF ch \in Quotes THEN Lex(s, i + 1, ch, escapedstate, token, quoted, acc)
      ELSE Lex(s, i + 1, "a", escapedstate, <<ch>>, quoted, acc)
    ELSE IF state \in Quotes THEN
      IF ch = state THEN Lex(s, i + 1, "a", escapedstate, token, TRUE, acc)
      ELSE IF ch \in Escape /\ state \in EscapedQuotes
        THEN Lex(s, i + 1, ch, state, token, TRUE, acc)
      ELSE Lex(s, i + 1, state, escapedstate, Append(token, ch), TRUE, acc)
    ELSE IF state \in Escape THEN
      LET kept == IF escapedstate \in Quotes /\ ch # state /\ ch # escapedstate
                  THEN Append(token, state) ELSE token
      IN Lex(s, i + 1, escapedstate, escapedstate, Append(kept, ch), quoted, acc)
    ELSE \* state = "a"
      IF ch \in Whitespace
        THEN Lex(s, i + 1, " ", escapedstate, <<>>, FALSE, Emit(acc, token, quoted))
      ELSE IF ch \in Quotes THEN Lex(s, i + 1, ch, escapedstate, token, quoted, acc)
      ELSE IF ch \in Escape THEN Lex(s, i + 1, ch, "a", token, quoted, acc)
      ELSE Lex(s, i + 1, "a", escapedstate, Append(token, ch), quoted, acc)

ShlexSplit(s) == Lex(s, 1, " ", " ", <<>>, FALSE, <<>>)

\* mutant: the arguments are handed on without being joined and split
escape_command_args_verbatim(cmd_args) ==
  IF cmd_args = <<>> THEN ShlexError ELSE [ok |-> TRUE, toks |-> cmd_args]

\* __escape_command_args: ValueError on an empty list or a shlex error
escape_command_args(cmd_args) ==
  IF cmd_args = <<>> THEN ShlexError ELSE ShlexSplit(Join(cmd_args))

(***************************************************************************)
(* The command registry: the eight __*_CMD descriptors of VeilAuthPam.     *)
(***************************************************************************)
RequiredRoles == {"USER_ADD", "GROUP_ADD", "USER_EDIT", "USER_SET_PASS",
                  "USER_CHECK_IN_GROUP", "USER_REMOVE_GROUP"}
OptionalRoles == {"SUDO", "KILL"}
Roles == RequiredRoles \cup OptionalRoles

\* the order in which __init__ assigns the descriptors
InitOrder == <<"USER_ADD", "GROUP_ADD", "USER_EDIT", "USER_SET_PASS",
               "USER_CHECK_IN_GROUP", "USER_REMOVE_GROUP", "SUDO", "KILL">>

\* the helper paths of the sample runner
SamplePath(role) ==
  CASE role = "USER_ADD" -> <<"bash", "/", "adduser_bi.sh">>
    [] role = "GROUP_ADD" -> <<"bash", "/", "addgroup_bi.sh">>
    [] role = "USER_EDIT" -> <<"bash", "/", "edituser_bi.sh">>
    [] role = "USER_SET_PASS" -> <<"bash", "/", "set_pass_bi.sh">>
    [] role = "USER_CHECK_IN_GROUP" -> <<"/", "usr", "/", "sbin", "/", "vdi_check_in_group_bi.sh">>
    [] role = "USER_REMOVE_GROUP" -> <<"bash", "/", "remove_user_group_bi.sh">>
    [] role = "SUDO" -> <<"/", "bin", "/", "sudo">>
    [] role = "KILL" -> <<"bash", "/", "kill_proc_bi.sh">>

\* the file system the constructor looks at: "x" an owner-executable regular
\* file, "-" a regular file without the owner-execute bit, "d" a directory,
\* "" nothing there
FileMode(path) ==
  IF \E r \in Roles : path = SamplePath(r) THEN "x"
  ELSE IF path = <<"/", "bin", "/", "rm">> THEN "x"
  ELSE IF path = <<"bash", "/", "notes.txt">> THEN "-"
  ELSE IF path = <<"bash">> \/ path = <<".">> \/ path = <<"/">> THEN "d"
  ELSE ""

RECURSIVE JoinPath(_, _)
JoinPath(parts, i) ==
  IF i > Len(parts) THEN <<>>
  ELSE IF i = Len(parts) THEN <<parts[i]>>
  ELSE <<parts[i], "/">> \o JoinPath(parts, i + 1)

IsPathPart(g) == g # "/" /\ g # "."

\* str(Path(value)): empty and "." components dropped, the root kept
PathStr(value) ==
  LET parts == SelectSeq(value, IsPathPart)
      root == IF value # <<>> /\ value[1] = "/" THEN <<"/">> ELSE <<>>
  IN IF parts = <<>> /\ root = <<>> THEN <<".">> ELSE root \o JoinPath(parts, 1)

\* mutant: the owner-execute bit is not looked at
CommandTypeCheckNoPerm(value) ==
  IF value = None THEN "TypeError"
  ELSE IF FileMode(PathStr(value)) \notin {"x", "-"} THEN "FileExistsError"
  ELSE ""

\* CommandType.__set__: "" when the value is stored, else the exception
CommandTypeCheck(value) ==
  IF value = None THEN "TypeError"
  ELSE IF FileMode(PathStr(value)) \notin {"x", "-"} THEN "FileExistsError"
  ELSE IF FileMode(PathStr(value)) # "x" THEN "PermissionError"
  ELSE ""

\* the exception of descriptor `role` for `value` ("" when none)
DescriptorCheck(role, value) ==
  IF role \in OptionalRoles /\ ~Truthy(value) THEN ""
  ELSE CommandTypeCheck(value)

\* what the descriptor stores in instance.__dict__
DescriptorStore(role, value) ==
  IF role \in OptionalRoles /\ ~Truthy(value) THEN None ELSE PathStr(value)

RECURSIVE FirstFailure(_, _)
FirstFailure(args, i) ==
  IF i > Len(InitOrder) THEN ""
  ELSE IF DescriptorCheck(InitOrder[i], args[InitOrder[i]]) # ""
    THEN DescriptorCheck(InitOrder[i], args[InitOrder[i]])
  ELSE FirstFailure(args, i + 1)

NoAuth == [state |-> "none", exc |-> "", cmds |-> [r \in Roles |-> None],
           validate |-> TRUE, show_stdout |-> FALSE]

\* VeilAuthPam.__init__
NewAuth(args, validate, show_stdout) ==
  IF FirstFailure(args, 1) # ""
  THEN [NoAuth EXCEPT !.state = "failed", !.exc = FirstFailure(args, 1)]
  ELSE [state |-> "ok", exc |-> "",
        cmds |-> [r \in Roles |-> DescriptorStore(r, args[r])],
        validate |-> validate, show_stdout |-> show_stdout]

\* mutant: the assertion on a missing kill_cmd is left out
as_sudo_never_raises(a) == FALSE

\* the as_sudo property: whether reading it raises AssertionError
as_sudo_raises(a) == Truthy(a.cmds["SUDO"]) /\ ~Truthy(a.cmds["KILL"])

\* the as_sudo property: its value when it does not raise
as_sudo(a) == Truthy(a.cmds["SUDO"]) /\ Truthy(a.cmds["KILL"])

\* __possible_commands: the values of the instance's __*_CMD attributes
possible_commands(a) == {a.cmds[r] : r \in Roles}

\* mutant: the `if not cmd` test is left out
validate_command_members(a, cmd) == cmd \in possible_commands(a)

\* __validate_command: TRUE when it does not raise
validate_command(a, cmd) == Truthy(cmd) /\ cmd \in possible_commands(a)

(***************************************************************************)
(* VeilResult                                                              *)
(***************************************************************************)
VeilResult(return_code, error_msg, stdout_msg) ==
  [return_code |-> return_code, error_msg |-> error_msg, stdout_msg |-> stdout_msg]

\* VeilResult.success
success(r) == r.return_code = 0 /\ ~Truthy(r.error_msg)

\* a result slot that holds no result
NoResult == VeilResult(-1, None, None)

(***************************************************************************)
(* __run_cmd, up to the first await of create_subprocess_exec              *)
(***************************************************************************)
\* the three values of an Optional[bool] argument
OptBool == {"None", "True", "False"}

\* as_sudo after `if as_sudo is None: as_sudo = self.as_sudo`
EffectiveSudo(a, sudo_arg) ==
  IF sudo_arg = "None" THEN as_sudo(a) ELSE sudo_arg = "True"

\* show_stdout after `if show_stdout is None: show_stdout = self.__show_stdout`
EffectiveShow(a, show_arg) ==
  IF show_arg = "None" THEN a.show_stdout ELSE show_arg = "True"

\* mutant: an explicit as_sudo=True is not checked against the instance
EscalationCheckDefaultOnly(a, sudo_arg) ==
  IF sudo_arg = "None" /\ as_sudo_raises(a) THEN "AssertionError" ELSE ""

\* the exception of the escalation check ("" when none)
EscalationCheck(a, sudo_arg) ==
  IF sudo_arg = "None" /\ as_sudo_raises(a) THEN "AssertionError"
  ELSE IF EffectiveSudo(a, sudo_arg) /\ as_sudo_raises(a) THEN "AssertionError"
  ELSE IF EffectiveSudo(a, sudo_arg) /\ ~as_sudo(a) THEN "ValueError"
  ELSE ""

\* the exception of the validation block ("" when none)
ValidationCheck(a, cmd, cmd_args) ==
  IF ~a.validate THEN ""
  ELSE IF ~validate_command(a, cmd) THEN "ValueError"
  ELSE IF ~escape_command_args(cmd_args).ok THEN "ValueError"
  ELSE ""

\* cmd_args after the validation block
ValidatedArgs(a, cmd_args) ==
  IF a.validate THEN escape_command_args(cmd_args).toks ELSE cmd_args

\* mutant: sudo is looked up on PATH instead of taken from the registry
SpawnCmdBareSudo(a, cmd, sudo) == IF sudo THEN <<"sudo">> ELSE cmd

\* the executable handed to create_subprocess_exec
SpawnCmd(a, cmd, sudo) == IF sudo THEN a.cmds["SUDO"] ELSE cmd

\* mutant: the command is put after its arguments
SpawnArgsAppend(cmd, cmd_args, sudo) == IF sudo THEN cmd_args \o <<cmd>> ELSE cmd_args

\* the arguments handed to create_subprocess_exec
SpawnArgs(cmd, cmd_args, sudo) == IF sudo THEN <<cmd>> \o cmd_args ELSE cmd_args

\* mutant: the termination request names the pid after the child's
KillCmdArgsNextPid(a, pid) == <<a.cmds["KILL"], <<ToString(pid + 1)>>>>

\* mutant: the termination request names the first process the engine started
KillCmdArgsFirstPid(a, pid) == <<a.cmds["KILL"], <<ToString(1)>>>>

\* the arguments of the termination request: [self.__KILL_CMD, str(proc.pid)]
KillCmdArgs(a, pid) == <<a.cmds["KILL"], <<ToString(pid)>>>>

\* the executable of the termination request: the local `cmd`
KillSpawnCmd(cmd) == cmd

\* mutant: the timeout branch leaves the return code at 0
TimeoutLocalsZero == [return_code |-> 0, stderr |-> None, stdout |-> None]

\* the locals of the `except asyncio.TimeoutError` branch
TimeoutLocals == [return_code |-> 1, stderr |-> None, stdout |-> None]

\* error_msg / stdout_msg: `x.decode() if x else None`
DecodeOrNone(b) == IF Truthy(b) THEN Decode(b) ELSE None

\* mutant: the exit code is reported as it is
ReportedCodeRaw(return_code, stderr) == return_code

\* mutant: any stderr output sets the code to 1
ReportedCodeOneOnStderr(return_code, stderr) ==
  IF Truthy(stderr) THEN 1 ELSE return_code

\* `return_code = 1 if return_code == 0 and stderr else return_code`
ReportedCode(return_code, stderr) ==
  IF return_code = 0 /\ Truthy(stderr) THEN 1 ELSE return_code

\* the exception of the `prepare VeilResult` block ("" when none)
PrepareCheck(stderr, stdout) ==
  IF Truthy(stderr) /\ ~DecodeOk(stderr) THEN "UnicodeDecodeError"
  ELSE IF Truthy(stdout) /\ ~DecodeOk(stdout) THEN "UnicodeDecodeError"
  ELSE ""

\* the VeilResult __run_cmd returns
PrepareResult(return_code, stderr, stdout) ==
  VeilResult(ReportedCode(return_code, stderr), DecodeOrNone(stderr),
             DecodeOrNone(stdout))

(***************************************************************************)
(* Argument lists of the public operations                                 *)
(***************************************************************************)
OptArg(flag, v) == IF Truthy(v) THEN <<Format(flag, v)>> ELSE <<>>

OptFlag(flag, b) == IF b THEN <<<<flag>>>> ELSE <<>>

\* user_create
UserCreateArgs(username, group, gecos) ==
  <<<<"-u">>, username>> \o OptArg("-g", group) \o OptArg("-G", gecos)

\* user_set_password
SetPasswordArgs(username, new_password) ==
  <<<<"-u">>, username, <<"-p">>, new_password>>

\* user_remove_group, user_in_group
UserGroupArgs(username, group) == <<<<"-u">>, username, <<"-g">>, group>>

\* group_create
GroupCreateArgs(group) == <<<<"-g">>, group>>

\* _user_edit; inactive_period 0 stands for None as well (both are falsy)
UserEditArgs(username, e) ==
  <<<<"-u">>, username>> \o OptArg("-a", e.group_add) \o OptFlag("-L", e.lock)
    \o OptFlag("-U", e.unlock) \o OptArg("-c", e.gecos)
    \o OptArg("-e", e.expire_date)
    \o (IF e.inactive_period # 0
        THEN <<Format("-f", <<ToString(e.inactive_period)>>)>> ELSE <<>>)

\* mutant: the length of cmd_args is not looked at
NoNewArgumentsNever(cmd_args) == FALSE

\* _user_edit: `if len(cmd_args) <= 2: raise ValueError('No new arguments.')`
NoNewArguments(cmd_args) == Len(cmd_args) <= 2

\* the partial-failure code of user_create_new
PasswordFailedCode == 969

\* mutant: the password step's result is handed on as it is
CreateNewResultVerbatim(password_result) ==
  IF ~success(password_result) THEN password_result ELSE VeilResult(0, None, None)

\* user_create_new after the set-password step
CreateNewResult(password_result) ==
  IF ~success(password_result)
  THEN VeilResult(PasswordFailedCode, password_result.error_msg, None)
  ELSE VeilResult(0, None, None)

\* mutant: the create step's result is not looked at
ContinueAlways(user_result) == TRUE

\* user_create_new: whether the set-password step is started
ContinueToPassword(user_result) == success(user_result)

StripSet == {" ", "\n"}

RECURSIVE LStrip(_)
LStrip(s) == IF s # <<>> /\ Head(s) \in StripSet THEN LStrip(Tail(s)) ELSE s

RECURSIVE RStrip(_)
RStrip(s) ==
  IF s # <<>> /\ s[Len(s)] \in StripSet THEN RStrip(SubSeq(s, 1, Len(s) - 1)) ELSE s

\* str.strip()
Strip(s) == RStrip(LStrip(s))

(***************************************************************************)
(* user_authenticate: the pam.pam() object and the result mapping          *)
(***************************************************************************)
\* what __PAM.authenticate decides for the credentials: its return value and
\* the code and reason it leaves on the object (src/main.py shows the failure)
PamVerdict(username, password) ==
  IF username = <<"user">> /\ password = <<"qwe123">>
  THEN [ok |-> TRUE, code |-> 0, reason |-> <<"Success">>]
  ELSE [ok |-> FALSE, code |-> 7, reason |-> <<"Authentication", " ", "failure">>]

\* no pam object; `thread` is the executor thread running __PAM.authenticate
NoPam == [thread |-> "none", verdict |-> PamVerdict(<<>>, <<>>),
          code |-> 0, reason |-> None, wcode |-> FALSE, wreason |-> FALSE]

\* __PAM = pam.pam() handed to run_in_executor: a fresh object holds code 0 and
\* no reason until authenticate stores them
NewPam(username, password) ==
  [NoPam EXCEPT !.thread = "running", !.verdict = PamVerdict(username, password)]

\* mutant: reason goes to the other field
AuthResultSwapped(result, code, reason) ==
  VeilResult(code, IF result THEN reason ELSE None, IF ~result THEN reason ELSE None)

\* `# prepare VeilResult` of user_authenticate
AuthResult(result, code, reason) ==
  VeilResult(code, IF ~result THEN reason ELSE None, IF result THEN reason ELSE None)

(***************************************************************************)
(* Bounds and inputs                                                       *)
(***************************************************************************)
\* pids handed out before the caller has seen every process end
MaxPid == 3

\* coroutines of the caller
Calls == {"main"}

Usernames == {<<"user">>,
              <<"user;", " ", "/", "bin", "/", "rm", " ", "-rf", " ", "/", "home">>,
              <<"o", "'", "brien">>}
Passwords == {<<"qwe123">>}
\* credentials handed to user_authenticate
AuthUsernames == {<<"user">>}
AuthPasswords == {<<"qwe123">>, <<"qqq">>}
GroupNames == {<<"vdi-web-admin">>}
\* (username, group, gecos) of user_create and user_create_new
CreateInputs ==
  {[username |-> u, group |-> None, gecos |-> None] : u \in Usernames}
    \cup {[username |-> <<"user">>, group |-> <<"vdi-web-admin">>,
           gecos |-> <<"Full", " ", "Name">>]}
\* usernames handed to _user_edit
EditUsernames == {<<"user">>}

NoEdit == [group_add |-> None, lock |-> FALSE, unlock |-> FALSE, gecos |-> None,
           expire_date |-> None, inactive_period |-> 0]
EditInputs == {NoEdit,
               [NoEdit EXCEPT !.group_add = <<"vdi-web-admin">>],
               [NoEdit EXCEPT !.lock = TRUE],
               [NoEdit EXCEPT !.unlock = TRUE],
               [NoEdit EXCEPT !.gecos = <<"Full", " ", "Name">>],
               [NoEdit EXCEPT !.expire_date = <<"2030-01-01">>],
               [NoEdit EXCEPT !.inactive_period = 7]}

\* how a child can end: its exit code and what it has written to its pipes
Outcome(code, out, err) == [code |-> code, out |-> out, err |-> err]
ErrText == <<"Unknown", " ", "arguments">>
ChildOutcomes ==
  {Outcome(0, <<>>, <<>>), Outcome(0, <<"0", "\n">>, <<>>),
   Outcome(0, <<"1", "\n">>, <<>>), Outcome(0, <<>>, ErrText),
   Outcome(0, <<"1", "\n">>, ErrText), Outcome(0, <<>>, <<BadByte>>),
   Outcome(2, <<>>, <<>>), Outcome(2, <<>>, ErrText)}
\* returncode of a child ended by SIGKILL
KILLED == -9

\* values a caller can hand to the constructor for a role
BadValues == {None, <<>>, <<"bash">>, <<"bash", "/", "notes.txt">>,
              <<"bash", "/", "missing.sh">>}

(***************************************************************************)
(* State                                                                   *)
(***************************************************************************)
IdleCall ==
  [op |-> "", step |-> "", pc |-> "idle", exc |-> "",
   username |-> <<>>, password |-> <<>>, show_arg |-> "None", sudo_arg |-> "None",
   cmd |-> <<>>, cmd_args |-> <<>>, as_sudo |-> FALSE, show_stdout |-> FALSE,
   proc |-> 0, kill_proc |-> 0, create_proc |-> 0, timed_out |-> FALSE,
   return_code |-> 0, stderr |-> None, stdout |-> None,
   run_result |-> NoResult, user_result |-> NoResult,
   password_result |-> NoResult, result |-> NoResult, value |-> "None",
   raw_args |-> <<>>, run_args |-> <<>>, edit |-> NoEdit, pam |-> NoPam, error_msg |-> None]

Init ==
  /\ auth = NoAuth
  /\ calls = [c \in Calls |-> IdleCall]
  /\ procs = [p \in {} |-> 0]
  /\ nextPid = 1

Finished(c) == calls[c].pc \in {"idle", "returned", "raised"}

Raise(cr, exc) == [cr EXCEPT !.pc = "raised", !.exc = exc]

\* __run_cmd from its first line to the await of create_subprocess_exec
EnterRunCmd(cr, a, cmd, cmd_args, show_arg, sudo_arg) ==
  IF EscalationCheck(a, sudo_arg) # "" THEN Raise(cr, EscalationCheck(a, sudo_arg))
  ELSE IF ValidationCheck(a, cmd, cmd_args) # ""
    THEN Raise(cr, ValidationCheck(a, cmd, cmd_args))
  ELSE [cr EXCEPT !.pc = "spawn", !.run_result = NoResult,
                  !.as_sudo = EffectiveSudo(a, sudo_arg),
                  !.show_stdout = EffectiveShow(a, show_arg),
                  !.raw_args = cmd_args,
                  !.run_args = ValidatedArgs(a, cmd_args),
                  !.cmd = SpawnCmd(a, cmd, EffectiveSudo(a, sudo_arg)),
                  !.cmd_args = SpawnArgs(cmd, ValidatedArgs(a, cmd_args),
                                         EffectiveSudo(a, sudo_arg)),
                  !.proc = 0, !.kill_proc = 0, !.timed_out = FALSE,
                  !.return_code = 0, !.stderr = None, !.stdout = None]

\* user_in_group: the value returned
InGroupValue(check_result) ==
  IF success(check_result) /\ Strip(check_result.stdout_msg) # <<"0">>
  THEN "True" ELSE "False"

\* the caller's code after __run_cmd has returned `res`
AfterRunCmd(cr, a, res) ==
  IF cr.op = "user_create_new" /\ cr.step = "create" THEN
    IF ~ContinueToPassword(res)
    THEN [cr EXCEPT !.pc = "returned", !.user_result = res, !.result = res]
    ELSE EnterRunCmd([cr EXCEPT !.step = "password", !.user_result = res,
                                !.create_proc = cr.proc], a,
                     a.cmds["USER_SET_PASS"],
                     SetPasswordArgs(cr.username, cr.password),
                     cr.show_arg, cr.sudo_arg)
  ELSE IF cr.op = "user_create_new" /\ cr.step = "password" THEN
    [cr EXCEPT !.pc = "returned", !.password_result = res,
               !.result = CreateNewResult(res)]
  ELSE IF cr.op = "user_in_group" THEN
    IF success(res) /\ res.stdout_msg = None
    THEN Raise([cr EXCEPT !.result = res], "AttributeError")
    ELSE [cr EXCEPT !.pc = "returned", !.result = res, !.value = InGroupValue(res)]
  ELSE [cr EXCEPT !.pc = "returned", !.result = res]

\* __run_cmd from `# prepare VeilResult` on, then the caller's code
Finish(cr, a) ==
  IF PrepareCheck(cr.stderr, cr.stdout) # ""
  THEN Raise(cr, PrepareCheck(cr.stderr, cr.stdout))
  ELSE AfterRunCmd([cr EXCEPT !.run_result =
                      PrepareResult(cr.return_code, cr.stderr, cr.stdout)],
                   a, PrepareResult(cr.return_code, cr.stderr, cr.stdout))

(***************************************************************************)
(* Actions                                                                 *)
(***************************************************************************)
\* auth_class = VeilAuthPam(...): every role gets the sample path, except that
\* sudo_cmd and kill_cmd may be left out and one role may get another value
CtorArgs(sudo_given, kill_given, role, value) ==
  [r \in Roles |-> IF r = role THEN value
                   ELSE IF r = "SUDO" /\ ~sudo_given THEN None
                   ELSE IF r = "KILL" /\ ~kill_given THEN None
                   ELSE SamplePath(r)]

Construct(sudo_given, kill_given, role, value, validate, show_stdout) ==
  /\ auth.state = "none"
  /\ auth' = NewAuth(CtorArgs(sudo_given, kill_given, role, value),
                     validate, show_stdout)
  /\ UNCHANGED <<calls, procs, nextPid>>

\* the caller awaits one operation before it starts the next (src/main.py)
CanStart(c) ==
  /\ auth.state = "ok"
  /\ \A d \in Calls : calls[d].pc = "idle"

StartCall(c, cr) ==
  /\ calls' = [calls EXCEPT ![c] = cr]
  /\ UNCHANGED <<auth, procs, nextPid>>

NewCall(op, sudo_arg) == [IdleCall EXCEPT !.op = op, !.sudo_arg = sudo_arg]

user_create(c, i, show_arg, sudo_arg) ==
  /\ CanStart(c)
  /\ StartCall(c, EnterRunCmd(NewCall("user_create", sudo_arg), auth,
                              auth.cmds["USER_ADD"],
                              UserCreateArgs(i.username, i.group, i.gecos),
                              show_arg, sudo_arg))

user_set_password(c, username, new_password, show_arg, sudo_arg) ==
  /\ CanStart(c)
  /\ StartCall(c, EnterRunCmd(NewCall("user_set_password", sudo_arg), auth,
                              auth.cmds["USER_SET_PASS"],
                              SetPasswordArgs(username, new_password),
                              show_arg, sudo_arg))

user_create_new(c, i, password, show_arg, sudo_arg) ==
  /\ CanStart(c)
  /\ StartCall(c, EnterRunCmd([NewCall("user_create_new", sudo_arg)
                                 EXCEPT !.step = "create", !.username = i.username,
                                        !.password = password,
                                        !.show_arg = show_arg],
                              auth, auth.cmds["USER_ADD"],
                              UserCreateArgs(i.username, i.group, i.gecos),
                              show_arg, sudo_arg))

user_edit(c, username, e, show_arg, sudo_arg) ==
  /\ CanStart(c)
  /\ StartCall(c, IF NoNewArguments(UserEditArgs(username, e))
                  THEN Raise([NewCall("user_edit", sudo_arg) EXCEPT !.edit = e],
                             "ValueError")
                  ELSE EnterRunCmd([NewCall("user_edit", sudo_arg) EXCEPT !.edit = e],
                                   auth,
                                   auth.cmds["USER_EDIT"], UserEditArgs(username, e),
                                   show_arg, sudo_arg))

user_remove_group(c, username, group, show_arg, sudo_arg) ==
  /\ CanStart(c)
  /\ StartCall(c, EnterRunCmd(NewCall("user_remove_group", sudo_arg), auth,
                              auth.cmds["USER_REMOVE_GROUP"],
                              UserGroupArgs(username, group), show_arg, sudo_arg))

user_in_group(c, username, group, sudo_arg) ==
  /\ CanStart(c)
  /\ StartCall(c, EnterRunCmd(NewCall("user_in_group", sudo_arg), auth,
                              auth.cmds["USER_CHECK_IN_GROUP"],
                              UserGroupArgs(username, group), "True", sudo_arg))

group_create(c, group, show_arg, sudo_arg) ==
  /\ CanStart(c)
  /\ StartCall(c, EnterRunCmd(NewCall("group_create", sudo_arg), auth,
                              auth.cmds["GROUP_ADD"], GroupCreateArgs(group),
                              show_arg, sudo_arg))

NewProc(exe, argv, owner, kind, capture) ==
  [exe |-> exe, argv |-> argv, owner |-> owner, kind |-> kind, capture |-> capture,
   status |-> "running", signalled |-> FALSE, code |-> 0, out |-> <<>>, err |-> <<>>]

AddProc(pid, p) == [q \in DOMAIN procs \cup {pid} |-> IF q = pid THEN p ELSE procs[q]]

\* the caller has its answer and goes on to its next operation, here once the
\* processes of the last one have ended (their pids are free again)
Forget(c) ==
  /\ calls[c].pc \in {"returned", "raised"}
  /\ \A p \in DOMAIN procs : procs[p].status = "exited"
  /\ calls[c].pam.thread # "running"
  /\ calls' = [calls EXCEPT ![c] = IdleCall]
  /\ procs' = [p \in {} |-> 0]
  /\ nextPid' = 1
  /\ UNCHANGED auth

\* create_subprocess_exec(cmd, *cmd_args, stdout=..., stderr=PIPE) returns
Spawn(c) ==
  /\ calls[c].pc = "spawn"
  /\ nextPid <= MaxPid
  /\ procs' = AddProc(nextPid, NewProc(calls[c].cmd, calls[c].cmd_args, c, "child",
                                       calls[c].show_stdout))
  /\ nextPid' = nextPid + 1
  /\ calls' = [calls EXCEPT ![c].pc = "communicate", ![c].proc = nextPid]
  /\ UNCHANGED auth

\* create_subprocess_exec raises OSError
SpawnFail(c) ==
  /\ calls[c].pc = "spawn"
  /\ calls' = [calls EXCEPT ![c] = Raise(calls[c], "OSError")]
  /\ UNCHANGED <<auth, procs, nextPid>>

\* a child ends, by itself with an exit code or by the SIGKILL it was sent;
\* o.out and o.err are what it has written to its pipes by then (a child whose
\* stdout is DEVNULL leaves nothing to read there)
ChildExit(p, o) ==
  /\ p \in DOMAIN procs
  /\ procs[p].kind = "child"
  /\ procs[p].status = "running"
  /\ procs[p].capture \/ o.out = <<>>
  /\ procs' = [procs EXCEPT ![p].status = "exited", ![p].out = o.out,
                            ![p].err = o.err,
                            ![p].code = IF procs[p].signalled THEN KILLED ELSE o.code]
  /\ UNCHANGED <<auth, calls, nextPid>>

\* wait_for(proc.communicate(), timeout) returns
CommunicateDone(c) ==
  /\ calls[c].pc = "communicate"
  /\ procs[calls[c].proc].status = "exited"
  /\ calls' = [calls EXCEPT ![c] =
       Finish([calls[c] EXCEPT
                 !.return_code = procs[calls[c].proc].code,
                 !.stderr = procs[calls[c].proc].err,
                 !.stdout = IF calls[c].show_stdout
                            THEN procs[calls[c].proc].out ELSE None], auth)]
  /\ UNCHANGED <<auth, procs, nextPid>>

\* wait_for raises TimeoutError: the except branch up to its first await
Deadline(c) ==
  /\ calls[c].pc = "communicate"
  /\ procs[calls[c].proc].status = "running"
  /\ calls' = [calls EXCEPT ![c].timed_out = TRUE,
                            ![c].return_code = TimeoutLocals.return_code,
                            ![c].stderr = TimeoutLocals.stderr,
                            ![c].stdout = TimeoutLocals.stdout,
                            ![c].pc = IF calls[c].as_sudo THEN "spawn_kill" ELSE "reap"]
  /\ procs' = IF calls[c].as_sudo THEN procs
              ELSE [procs EXCEPT ![calls[c].proc].signalled = TRUE]
  /\ UNCHANGED <<auth, nextPid>>

\* create_subprocess_exec(cmd, *kill_cmd_args, ...) returns
SpawnKill(c) ==
  /\ calls[c].pc = "spawn_kill"
  /\ nextPid <= MaxPid
  /\ procs' = AddProc(nextPid, NewProc(KillSpawnCmd(calls[c].cmd),
                                       KillCmdArgs(auth, calls[c].proc), c, "kill",
                                       FALSE))
  /\ nextPid' = nextPid + 1
  /\ calls' = [calls EXCEPT ![c].pc = "wait_kill", ![c].kill_proc = nextPid]
  /\ UNCHANGED auth

\* the create_subprocess_exec of the termination request raises OSError
SpawnKillFail(c) ==
  /\ calls[c].pc = "spawn_kill"
  /\ calls' = [calls EXCEPT ![c] = Raise(calls[c], "OSError")]
  /\ UNCHANGED <<auth, procs, nextPid>>

\* the process a termination request names in its last argument
KillTarget(p) ==
  {q \in DOMAIN procs : <<ToString(q)>> = procs[p].argv[Len(procs[p].argv)]}

\* the termination request ends, with an exit code nobody reads; `killed` says
\* whether it ended its target
KillExit(p, killed) ==
  /\ p \in DOMAIN procs
  /\ procs[p].kind = "kill"
  /\ procs[p].status = "running"
  /\ procs' = [q \in DOMAIN procs |->
                 IF q = p THEN [procs[q] EXCEPT !.status = "exited"]
                 ELSE IF killed /\ q \in KillTarget(p) /\ procs[q].status = "running"
                   THEN [procs[q] EXCEPT !.status = "exited", !.code = KILLED]
                 ELSE procs[q]]
  /\ UNCHANGED <<auth, calls, nextPid>>

\* `await kill_proc.wait()` returns
KillWaitDone(c) ==
  /\ calls[c].pc = "wait_kill"
  /\ procs[calls[c].kill_proc].status = "exited"
  /\ calls' = [calls EXCEPT ![c] = Finish(calls[c], auth)]
  /\ UNCHANGED <<auth, procs, nextPid>>

\* mutant: the result is built without waiting for the child to be reaped
ReapDoneEarly(c) ==
  /\ calls[c].pc = "reap"
  /\ calls' = [calls EXCEPT ![c] = Finish(calls[c], auth)]
  /\ UNCHANGED <<auth, procs, nextPid>>

\* `await asyncio.wait_for(proc.wait(), 10)` returns
ReapDone(c) ==
  /\ calls[c].pc = "reap"
  /\ procs[calls[c].proc].status = "exited"
  /\ calls' = [calls EXCEPT ![c] = Finish(calls[c], auth)]
  /\ UNCHANGED <<auth, procs, nextPid>>

\* `await asyncio.wait_for(proc.wait(), 10)` raises TimeoutError
GraceExpire(c) ==
  /\ calls[c].pc = "reap"
  /\ procs[calls[c].proc].status = "running"
  /\ calls' = [calls EXCEPT ![c] = Raise(calls[c], "TimeoutError")]
  /\ UNCHANGED <<auth, procs, nextPid>>

\* user_authenticate up to its await: the pam object is created and
\* __PAM.authenticate is handed to the default executor
user_authenticate(c, username, password) ==
  /\ CanStart(c)
  /\ StartCall(c, [NewCall("user_authenticate", "None") EXCEPT
                     !.pc = "auth_wait", !.username = username,
                     !.password = password, !.pam = NewPam(username, password)])

\* the executor thread stores the status code on the pam object
PamSetCode(c) ==
  /\ calls[c].pam.thread = "running"
  /\ ~calls[c].pam.wcode
  /\ calls' = [calls EXCEPT ![c].pam.code = calls[c].pam.verdict.code,
                            ![c].pam.wcode = TRUE]
  /\ UNCHANGED <<auth, procs, nextPid>>

\* the executor thread stores the reason on the pam object
PamSetReason(c) ==
  /\ calls[c].pam.thread = "running"
  /\ ~calls[c].pam.wreason
  /\ calls' = [calls EXCEPT ![c].pam.reason = calls[c].pam.verdict.reason,
                            ![c].pam.wreason = TRUE]
  /\ UNCHANGED <<auth, procs, nextPid>>

\* __PAM.authenticate returns in the executor thread
PamReturn(c) ==
  /\ calls[c].pam.thread = "running"
  /\ calls[c].pam.wcode /\ calls[c].pam.wreason
  /\ calls' = [calls EXCEPT ![c].pam.thread = "done"]
  /\ UNCHANGED <<auth, procs, nextPid>>

\* wait_for(aio_task, timeout) returns the oracle's answer; the result is built
AuthDone(c) ==
  /\ calls[c].pc = "auth_wait"
  /\ calls[c].pam.thread = "done"
  /\ calls' = [calls EXCEPT
       ![c].pc = "returned",
       ![c].value = IF calls[c].pam.verdict.ok THEN "True" ELSE "False",
       ![c].result = AuthResult(calls[c].pam.verdict.ok, calls[c].pam.code,
                                calls[c].pam.reason)]
  /\ UNCHANGED <<auth, procs, nextPid>>

\* wait_for raises TimeoutError: result = False, the future is cancelled (the
\* thread is not), and error_msg is read from the pam object
AuthDeadline(c) ==
  /\ calls[c].pc = "auth_wait"
  /\ calls[c].pam.thread = "running"
  /\ calls' = [calls EXCEPT ![c].pc = "auth_code", ![c].timed_out = TRUE,
                            ![c].value = "False",
                            ![c].error_msg = calls[c].pam.reason]
  /\ UNCHANGED <<auth, procs, nextPid>>

\* after a timeout: `return_code = __PAM.code` and the return
AuthReadCode(c) ==
  /\ calls[c].pc = "auth_code"
  /\ calls' = [calls EXCEPT
       ![c].pc = "returned",
       ![c].result = AuthResult(FALSE, calls[c].pam.code, calls[c].error_msg)]
  /\ UNCHANGED <<auth, procs, nextPid>>

Next ==
  \/ \E sg, kg, v, s \in BOOLEAN, r \in Roles :
       \E x \in BadValues \cup {SamplePath(r)} : Construct(sg, kg, r, x, v, s)
  \/ \E c \in Calls, i \in CreateInputs, sh, su \in OptBool :
       user_create(c, i, sh, su)
  \/ \E c \in Calls, u \in Usernames, pw \in Passwords, sh, su \in OptBool :
       user_set_password(c, u, pw, sh, su)
  \/ \E c \in Calls, i \in CreateInputs, pw \in Passwords, sh, su \in OptBool :
       user_create_new(c, i, pw, sh, su)
  \/ \E c \in Calls, u \in EditUsernames, e \in EditInputs, sh, su \in OptBool :
       user_edit(c, u, e, sh, su)
  \/ \E c \in Calls, u \in Usernames, g \in GroupNames, sh, su \in OptBool :
       user_remove_group(c, u, g, sh, su)
  \/ \E c \in Calls, u \in Usernames, g \in GroupNames, su \in OptBool :
       user_in_group(c, u, g, su)
  \/ \E c \in Calls, g \in GroupNames, sh, su \in OptBool :
       group_create(c, g, sh, su)
  \/ \E c \in Calls : Spawn(c)
  \/ \E c \in Calls : Forget(c)
  \/ \E c \in Calls : SpawnFail(c)
  \/ \E p \in 1..MaxPid, o \in ChildOutcomes : ChildExit(p, o)
  \/ \E c \in Calls : CommunicateDone(c)
  \/ \E c \in Calls : Deadline(c)
  \/ \E c \in Calls : SpawnKill(c)
  \/ \E c \in Calls : SpawnKillFail(c)
  \/ \E p \in 1..MaxPid, k \in BOOLEAN : KillExit(p, k)
  \/ \E c \in Calls : KillWaitDone(c)
  \/ \E c \in Calls : ReapDone(c)
  \/ \E c \in Calls : GraceExpire(c)
  \/ \E c \in Calls, u \in AuthUsernames, pw \in AuthPasswords :
       user_authenticate(c, u, pw)
  \/ \E c \in Calls : PamSetCode(c)
  \/ \E c \in Calls : PamSetReason(c)
  \/ \E c \in Calls : PamReturn(c)
  \/ \E c \in Calls : AuthDone(c)
  \/ \E c \in Calls : AuthDeadline(c)
  \/ \E c \in Calls : AuthReadCode(c)

Spec == Init /\ [][Next]_vars

\* the steps the event loop takes for call c by itself: a ready completion is
\* delivered, a timer fires, a spawn returns
EngineStep(c) ==
  \/ Spawn(c) \/ SpawnFail(c) \/ CommunicateDone(c) \/ Deadline(c)
  \/ SpawnKill(c) \/ SpawnKillFail(c) \/ KillWaitDone(c) \/ ReapDone(c)
  \/ GraceExpire(c) \/ AuthDone(c) \/ AuthDeadline(c) \/ AuthReadCode(c)

\* the event loop keeps running; nothing makes a child or a helper exit
FairSpec == Spec /\ \A c \in Calls : WF_vars(EngineStep(c))

(***************************************************************************)
(* Two coroutines on one engine                                            *)
(***************************************************************************)
\* coroutines that call the engine without awaiting each other
Tasks == {"main", "task"}

\* how a child of these coroutines can end
TaskOutcomes ==
  {Outcome(0, <<"1", "\n">>, <<>>), Outcome(0, <<>>, ErrText),
   Outcome(2, <<>>, ErrText)}

\* one engine with every role given, as src/main.py builds it
TaskInit ==
  /\ auth = NewAuth([r \in Roles |-> SamplePath(r)], FALSE, TRUE)
  /\ calls = [c \in Tasks |-> IdleCall]
  /\ procs = [p \in {} |-> 0]
  /\ nextPid = 1

\* a coroutine calls an operation whatever the other coroutine is doing
TaskCanStart(c) == auth.state = "ok" /\ calls[c].pc = "idle"

task_user_set_password(c, username, new_password, show_arg, sudo_arg) ==
  /\ TaskCanStart(c)
  /\ StartCall(c, EnterRunCmd(NewCall("user_set_password", sudo_arg), auth,
                              auth.cmds["USER_SET_PASS"],
                              SetPasswordArgs(username, new_password),
                              show_arg, sudo_arg))

task_group_create(c, group, show_arg, sudo_arg) ==
  /\ TaskCanStart(c)
  /\ StartCall(c, EnterRunCmd(NewCall("group_create", sudo_arg), auth,
                              auth.cmds["GROUP_ADD"], GroupCreateArgs(group),
                              show_arg, sudo_arg))

TaskNext ==
  \/ \E c \in Tasks, u \in AuthUsernames, pw \in Passwords, su \in {"None", "False"} :
       task_user_set_password(c, u, pw, "None", su)
  \/ \E c \in Tasks, g \in GroupNames, su \in {"None", "False"} :
       task_group_create(c, g, "None", su)
  \/ \E c \in Tasks : Spawn(c)
  \/ \E c \in Tasks : SpawnFail(c)
  \/ \E p \in 1..MaxPid, o \in TaskOutcomes : ChildExit(p, o)
  \/ \E c \in Tasks : CommunicateDone(c)
  \/ \E c \in Tasks : Deadline(c)
  \/ \E c \in Tasks : SpawnKill(c)
  \/ \E c \in Tasks : SpawnKillFail(c)
  \/ \E p \in 1..MaxPid, k \in BOOLEAN : KillExit(p, k)
  \/ \E c \in Tasks : KillWaitDone(c)
  \/ \E c \in Tasks : ReapDone(c)
  \/ \E c \in Tasks : GraceExpire(c)

TaskSpec == TaskInit /\ [][TaskNext]_vars

(***************************************************************************)
(* Properties                                                              *)
(***************************************************************************)
Range(f) == {f[i] : i \in DOMAIN f}

\* the paths stored by the constructor
Registered == {auth.cmds[r] : r \in Roles} \ {None}

BothRoles == Truthy(auth.cmds["SUDO"]) /\ Truthy(auth.cmds["KILL"])
ExactlyOneRole == Truthy(auth.cmds["SUDO"]) # Truthy(auth.cmds["KILL"])

\* __run_cmd has returned a result in the current invocation of call c
Reported(c) == calls[c].run_result # NoResult

\* process p runs the helper of `role`, directly or under sudo
RunsRole(p, role) ==
  \/ procs[p].exe = auth.cmds[role]
  \/ /\ procs[p].exe = auth.cmds["SUDO"]
     /\ procs[p].argv # <<>>
     /\ Head(procs[p].argv) = auth.cmds[role]

\* C1: the executable of every spawned process, the termination helper
\* included, is one of the paths registered at construction.
C1_OnlyRegisteredExecutables ==
  \A p \in DOMAIN procs : procs[p].exe \in Registered

\* C1 witness: with validation on, an injected "/bin/rm" has reached a child's
\* argv and a termination helper has been spawned after a timeout.
C1_Witness ==
  /\ auth.validate
  /\ \E p \in DOMAIN procs : procs[p].kind = "kill"
  /\ \E q \in DOMAIN procs :
       procs[q].kind = "child" /\ <<"/", "bin", "/", "rm">> \in Range(procs[q].argv)

\* C2: a result returned after the wait timed out is exactly
\* {returnCode 1, errorText None, stdoutText None}, and not a success.
C2_TimeoutResult ==
  \A c \in Calls :
    calls[c].timed_out /\ Reported(c) =>
      /\ calls[c].run_result = VeilResult(1, None, None)
      /\ ~success(calls[c].run_result)

\* C2 witness: an escalated invocation timed out and returned, and its child
\* had written to stderr.
C2_Witness ==
  \E c \in Calls :
    /\ calls[c].timed_out /\ Reported(c) /\ calls[c].as_sudo
    /\ procs[calls[c].proc].err = ErrText

\* C3: when a result is returned for an invocation whose wait timed out, the
\* child of that invocation is no longer running.
C3_ChildGoneAtReturn ==
  \A c \in Calls :
    calls[c].timed_out /\ Reported(c) => procs[calls[c].proc].status = "exited"

\* C4: a child that completes before the deadline with exit code 0 and
\* non-empty stderr yields returnCode 1, success false and errorText = stderr.
C4_StderrOverride ==
  \A c \in Calls :
    (/\ Reported(c) /\ ~calls[c].timed_out
     /\ procs[calls[c].proc].code = 0
     /\ procs[calls[c].proc].err # <<>>) =>
      /\ calls[c].run_result.return_code = 1
      /\ ~success(calls[c].run_result)
      /\ calls[c].run_result.error_msg = procs[calls[c].proc].err

\* C4 witness: a child exited with code 0 and text on stderr, and the result
\* was returned.
C4_Witness ==
  \E c \in Calls :
    /\ Reported(c) /\ ~calls[c].timed_out
    /\ procs[calls[c].proc].code = 0
    /\ procs[calls[c].proc].err = ErrText

\* C5: once the child has been spawned, __run_cmd does not end by raising
\* for a process outcome (a failing spawn of the helper is left aside).
C5_NeverRaisesAfterSpawn ==
  \A c \in Calls :
    calls[c].pc = "raised" /\ calls[c].proc # 0 /\ ~Reported(c) =>
      calls[c].exc = "OSError"

\* C6: once the deadline of a command invocation has fired, the invocation
\* eventually returns a result.
C6_EventuallyReported ==
  \A c \in Calls :
    (calls[c].op # "user_authenticate" /\ calls[c].timed_out /\ ~Reported(c))
      ~> Reported(c)

C8_EscalationGate ==
  \A c \in Calls :
    /\ calls[c].pc \notin {"idle", "raised"} /\ calls[c].as_sudo => BothRoles
    /\ calls[c].pc # "idle" /\ calls[c].sudo_arg = "True" /\ ~BothRoles =>
         calls[c].pc = "raised" /\ procs = <<>>

\* C8 witness: kill without sudo, as_sudo=True: the call raised ValueError.
C8_Witness ==
  /\ ~Truthy(auth.cmds["SUDO"]) /\ Truthy(auth.cmds["KILL"])
  /\ \E c \in Calls :
       /\ calls[c].sudo_arg = "True"
       /\ calls[c].pc = "raised" /\ calls[c].exc = "ValueError"

\* C9: the result of user_create_new: the create step's result when that
\* failed; {969, the password step's errorText, None} when the password step
\* failed (a timeout included); {0, None, None} when both succeeded.
C9_CreateNewResult ==
  \A c \in Calls :
    calls[c].op = "user_create_new" /\ calls[c].pc = "returned" =>
      /\ ~success(calls[c].user_result) =>
           /\ calls[c].step = "create"
           /\ calls[c].result = calls[c].run_result
           /\ calls[c].result = calls[c].user_result
      /\ success(calls[c].user_result) =>
           /\ calls[c].step = "password"
           /\ calls[c].password_result = calls[c].run_result
      /\ success(calls[c].user_result) /\ ~success(calls[c].password_result) =>
           calls[c].result =
             VeilResult(969, calls[c].password_result.error_msg, None)
      /\ calls[c].step = "password" /\ calls[c].timed_out =>
           calls[c].result = VeilResult(969, None, None)
      /\ success(calls[c].user_result) /\ success(calls[c].password_result) =>
           calls[c].result = VeilResult(0, None, None)

\* C9 witness: the create step succeeded and the password step timed out.
C9_Witness ==
  \E c \in Calls :
    /\ calls[c].op = "user_create_new" /\ calls[c].pc = "returned"
    /\ calls[c].step = "password" /\ calls[c].timed_out
    /\ calls[c].result.return_code = 969

\* C10: within user_create_new a set-password process exists only after the
\* create-user process of the same call has exited by itself with code 0 and
\* nothing on stderr.
C10_PasswordAfterCreate ==
  \A p \in DOMAIN procs :
    (/\ procs[p].kind = "child"
     /\ calls[procs[p].owner].op = "user_create_new"
     /\ RunsRole(p, "USER_SET_PASS")) =>
      \E q \in DOMAIN procs :
        /\ q < p
        /\ procs[q].owner = procs[p].owner
        /\ RunsRole(q, "USER_ADD")
        /\ procs[q].status = "exited" /\ ~procs[q].signalled
        /\ procs[q].code = 0 /\ procs[q].err = <<>>

\* C10 witness: a set-password process of a user_create_new call is running.
C10_Witness ==
  \E p \in DOMAIN procs :
    /\ calls[procs[p].owner].op = "user_create_new"
    /\ RunsRole(p, "USER_SET_PASS")
    /\ procs[p].status = "running"

\* call c is a user_authenticate call that has ended
AuthEnded(c) ==
  calls[c].op = "user_authenticate" /\ calls[c].pc \in {"returned", "raised"}

\* C11: a user_authenticate call whose wait timed out ends by returning a
\* result that is not a success, whatever the pam object held when read.
C11_AuthTimeoutFails ==
  \A c \in Calls :
    AuthEnded(c) /\ calls[c].timed_out =>
      calls[c].pc = "returned" /\ ~success(calls[c].result)

\* C12: after user_authenticate has returned on a timeout, the executor
\* thread started for that oracle call is not running.
C12_NoWorkerAfterTimeout ==
  \A c \in Calls :
    AuthEnded(c) /\ calls[c].timed_out => calls[c].pam.thread # "running"

\* C13: when the oracle call completes in time, returnCode is the oracle's
\* code; on success stdout_msg is the reason and error_msg is None; on failure
\* error_msg is the reason and stdout_msg is None.
C13_AuthMapping ==
  \A c \in Calls :
    AuthEnded(c) /\ ~calls[c].timed_out =>
      /\ calls[c].pc = "returned"
      /\ calls[c].result.return_code =
           PamVerdict(calls[c].username, calls[c].password).code
      /\ PamVerdict(calls[c].username, calls[c].password).ok =>
           /\ calls[c].result.stdout_msg =
                PamVerdict(calls[c].username, calls[c].password).reason
           /\ calls[c].result.error_msg = None
      /\ ~PamVerdict(calls[c].username, calls[c].password).ok =>
           /\ calls[c].result.error_msg =
                PamVerdict(calls[c].username, calls[c].password).reason
           /\ calls[c].result.stdout_msg = None

\* C13 witness: a failed authentication has been reported in time.
C13_Witness ==
  \E c \in Calls :
    /\ AuthEnded(c) /\ ~calls[c].timed_out
    /\ calls[c].result.return_code = 7
    /\ calls[c].result.error_msg = <<"Authentication", " ", "failure">>

\* C14: _user_edit called with every optional attribute absent raises
\* ValueError and no process is spawned.
C14_NoChangeEditFails ==
  \A c \in Calls :
    calls[c].op = "user_edit" /\ calls[c].edit = NoEdit =>
      /\ calls[c].pc = "raised" /\ calls[c].exc = "ValueError"
      /\ procs = <<>>

\* C14 witness: an edit without attributes was called with as_sudo=False on
\* an instance that validates, and it raised.
C14_Witness ==
  /\ auth.validate
  /\ \E c \in Calls :
       /\ calls[c].op = "user_edit" /\ calls[c].edit = NoEdit
       /\ calls[c].sudo_arg = "False" /\ calls[c].pc = "raised"

\* C15: once the check-in-group command has a result, user_in_group returns a
\* boolean: True when the result is a success and its stripped stdout is not
\* "0", False in every other case.
C15_InGroupBoolean ==
  \A c \in Calls :
    (/\ calls[c].op = "user_in_group" /\ Reported(c)
     /\ calls[c].pc \in {"returned", "raised"}) =>
      /\ calls[c].pc = "returned"
      /\ calls[c].value =
           IF /\ success(calls[c].run_result)
              /\ Strip(calls[c].run_result.stdout_msg) # <<"0">>
           THEN "True" ELSE "False"

\* paths the whitelist check is asked about
Candidates ==
  {SamplePath(r) : r \in Roles}
    \cup {None, <<>>, <<"/", "bin", "/", "rm">>, <<"bash">>}

\* the registered command an invocation was started for
OriginalCmd(c) ==
  IF calls[c].as_sudo THEN Head(procs[calls[c].proc].argv)
  ELSE procs[calls[c].proc].exe

\* C16: on a constructed instance the whitelist check accepts exactly the
\* paths stored for a role, never the empty or absent path; with validation
\* on, every spawned command is one of them.
C16_WhitelistCheck ==
  auth.state = "ok" =>
    /\ \A cmd \in Candidates :
         validate_command(auth, cmd) <=>
           /\ cmd \notin {None, <<>>}
           /\ \E r \in Roles : auth.cmds[r] = cmd
    /\ \A c \in Calls :
         auth.validate /\ calls[c].proc # 0 =>
           \E r \in RequiredRoles : auth.cmds[r] = OriginalCmd(c)

\* C16 witness: validation is on, sudo is absent (so None is among the stored
\* values) and a command has been spawned.
C16_Witness ==
  /\ auth.state = "ok" /\ auth.validate
  /\ auth.cmds["SUDO"] = None /\ None \in possible_commands(auth)
  /\ \E c \in Calls : calls[c].proc # 0

\* a constructor argument naming an owner-executable regular file
Usable(v) == v # None /\ FileMode(PathStr(v)) = "x"

\* C17: for every argument list the caller may hand to __init__, construction
\* succeeds exactly when every required argument and every non-empty optional
\* argument names an owner-executable regular file, and an empty or missing
\* optional argument is stored as None; an instance that exists holds only
\* such paths, and a failed construction raised and leaves nothing to call.
C17_ConstructionChecks ==
  /\ auth.state = "failed" =>
       /\ auth.exc # "" /\ procs = <<>>
       /\ \A c \in Calls : calls[c].pc = "idle"
  /\ auth.state = "ok" =>
       /\ \A r \in RequiredRoles : FileMode(auth.cmds[r]) = "x"
       /\ \A r \in OptionalRoles :
            auth.cmds[r] = None \/ FileMode(auth.cmds[r]) = "x"
  /\ auth.state = "none" =>
       \A sg, kg, v, sh \in BOOLEAN, r \in Roles :
         \A x \in BadValues \cup {SamplePath(r)} :
           /\ NewAuth(CtorArgs(sg, kg, r, x), v, sh).state \in {"ok", "failed"}
           /\ NewAuth(CtorArgs(sg, kg, r, x), v, sh).state = "ok" <=>
                /\ \A q \in RequiredRoles : Usable(CtorArgs(sg, kg, r, x)[q])
                /\ \A q \in OptionalRoles :
                     \/ CtorArgs(sg, kg, r, x)[q] \in {None, <<>>}
                     \/ Usable(CtorArgs(sg, kg, r, x)[q])
           /\ NewAuth(CtorArgs(sg, kg, r, x), v, sh).state = "ok" =>
                \A q \in OptionalRoles :
                  CtorArgs(sg, kg, r, x)[q] \in {None, <<>>} =>
                    NewAuth(CtorArgs(sg, kg, r, x), v, sh).cmds[q] = None

\* C17 witness: a construction was refused for a file without the
\* owner-execute bit.
C17_Witness == auth.state = "failed" /\ auth.exc = "PermissionError"

\* C18: a termination request exists only for an escalated invocation that
\* timed out, runs the registered kill executable under sudo with the pid of
\* that invocation's child as its only argument; a child is signalled
\* directly only in a non-escalated invocation that timed out.
C18_KillHelperTargetsChild ==
  /\ \A p \in DOMAIN procs :
       procs[p].kind = "kill" =>
         /\ calls[procs[p].owner].as_sudo /\ calls[procs[p].owner].timed_out
         /\ procs[p].exe = auth.cmds["SUDO"]
         /\ procs[p].argv =
              <<auth.cmds["KILL"], <<ToString(calls[procs[p].owner].proc)>>>>
         /\ auth.cmds["KILL"] # None
         /\ procs[calls[procs[p].owner].proc].kind = "child"
         /\ procs[calls[procs[p].owner].proc].owner = procs[p].owner
  /\ \A p \in DOMAIN procs :
       procs[p].signalled =>
         ~calls[procs[p].owner].as_sudo /\ calls[procs[p].owner].timed_out
  /\ \A c \in Calls :
       calls[c].as_sudo /\ calls[c].timed_out /\ Reported(c) =>
         calls[c].kill_proc # 0 /\ procs[calls[c].kill_proc].kind = "kill"

\* C18 witness: in user_create_new the set-password step timed out under sudo
\* and its termination request is running.
C18_Witness ==
  \E p \in DOMAIN procs :
    /\ procs[p].kind = "kill" /\ procs[p].status = "running"
    /\ calls[procs[p].owner].step = "password"

\* the role whose command an operation runs
OpRole(c) ==
  CASE calls[c].op = "user_create" -> "USER_ADD"
    [] calls[c].op = "user_create_new" ->
         IF calls[c].step = "create" THEN "USER_ADD" ELSE "USER_SET_PASS"
    [] calls[c].op = "user_set_password" -> "USER_SET_PASS"
    [] calls[c].op = "user_edit" -> "USER_EDIT"
    [] calls[c].op = "user_remove_group" -> "USER_REMOVE_GROUP"
    [] calls[c].op = "user_in_group" -> "USER_CHECK_IN_GROUP"
    [] calls[c].op = "group_create" -> "GROUP_ADD"

\* C19: the escalate flag in effect is the as_sudo argument when given, else
\* whether both sudo and kill are stored; escalated, the child runs the sudo
\* path with [registered binary] + args, otherwise the registered binary
\* with the args.
C19_EffectiveEscalation ==
  \A c \in Calls :
    calls[c].proc # 0 =>
      /\ calls[c].as_sudo =
           IF calls[c].sudo_arg = "None" THEN BothRoles
           ELSE calls[c].sudo_arg = "True"
      /\ calls[c].as_sudo =>
           /\ procs[calls[c].proc].exe = auth.cmds["SUDO"]
           /\ procs[calls[c].proc].argv =
                <<auth.cmds[OpRole(c)]>> \o calls[c].run_args
      /\ ~calls[c].as_sudo =>
           /\ procs[calls[c].proc].exe = auth.cmds[OpRole(c)]
           /\ procs[calls[c].proc].argv = calls[c].run_args

\* C19 witness: both sudo and kill are stored and a call with as_sudo=False
\* has spawned its command.
C19_Witness ==
  /\ BothRoles
  /\ \E c \in Calls :
       /\ calls[c].sudo_arg = "False" /\ calls[c].proc # 0
       /\ procs[calls[c].proc].exe = auth.cmds["USER_ADD"]

\* the termination requests spawned for call c
KillProcs(c) == {p \in DOMAIN procs : procs[p].kind = "kill" /\ procs[p].owner = c}

\* C20: a process exists only after the escalation and whitelist/argument
\* checks have passed; a termination action is issued only after a timeout,
\* at most once and in one of the two ways; no child that completed in time
\* is terminated; the result is built only after the child's completion or
\* after the termination step.
C20_StateMachineOrder ==
  \A c \in Calls :
    /\ calls[c].proc # 0 =>
         /\ ~(calls[c].sudo_arg = "True" /\ ~BothRoles)
         /\ ~(calls[c].sudo_arg = "None" /\ ExactlyOneRole
                /\ Truthy(auth.cmds["SUDO"]))
         /\ auth.validate =>
              /\ OriginalCmd(c) \in Registered
              /\ \A i \in DOMAIN calls[c].run_args :
                   \A j \in DOMAIN calls[c].run_args[i] :
                     calls[c].run_args[i][j] \notin Whitespace \cup Quotes
    /\ calls[c].pc \in {"spawn", "communicate"} =>
         ~calls[c].timed_out /\ calls[c].kill_proc = 0
    /\ Cardinality(KillProcs(c)) <= 1
    /\ KillProcs(c) # {} => calls[c].timed_out /\ KillProcs(c) = {calls[c].kill_proc}
    /\ \A p \in DOMAIN procs :
         procs[p].owner = c /\ procs[p].signalled =>
           calls[c].timed_out /\ p = calls[c].proc /\ KillProcs(c) = {}
    /\ Reported(c) /\ ~calls[c].timed_out =>
         /\ procs[calls[c].proc].status = "exited"
         /\ ~procs[calls[c].proc].signalled
         /\ calls[c].kill_proc = 0
    /\ calls[c].create_proc # 0 =>
         /\ ~procs[calls[c].create_proc].signalled
         /\ procs[calls[c].create_proc].status = "exited"
    /\ Reported(c) /\ calls[c].timed_out =>
         IF calls[c].as_sudo
         THEN procs[calls[c].kill_proc].status = "exited"
         ELSE /\ procs[calls[c].proc].signalled
              /\ procs[calls[c].proc].status = "exited"

\* C20 witness: with validation on, an escalated invocation timed out, its
\* termination request ended and the result was returned.
C20_Witness ==
  /\ auth.validate
  /\ \E c \in Calls :
       /\ Reported(c) /\ calls[c].timed_out /\ calls[c].as_sudo
       /\ procs[calls[c].kill_proc].status = "exited"

\* the injection attempt of the sample runner, as one caller token
InjectedName == <<"user;", " ", "/", "bin", "/", "rm", " ", "-rf", " ", "/", "home">>

\* C21: with validation on, the child's arguments are the shlex tokens of the
\* caller's tokens joined by single spaces; a username holding whitespace
\* arrives as several arguments, "/bin/rm" among them, while the executable
\* is the registered helper; an empty token list is refused and never run.
C21_InjectionShaping ==
  /\ ~escape_command_args(<<>>).ok
  /\ \A c \in Calls :
       auth.validate /\ calls[c].proc # 0 =>
         /\ calls[c].raw_args # <<>>
         /\ ShlexSplit(Join(calls[c].raw_args)).ok
         /\ calls[c].run_args = ShlexSplit(Join(calls[c].raw_args)).toks
         /\ OriginalCmd(c) = auth.cmds[OpRole(c)]
         /\ procs[calls[c].proc].exe \in {auth.cmds[OpRole(c)], auth.cmds["SUDO"]}
         /\ procs[calls[c].proc].exe # None
         /\ InjectedName \in Range(calls[c].raw_args) =>
              /\ Len(calls[c].run_args) > Len(calls[c].raw_args)
              /\ <<"/", "bin", "/", "rm">> \in Range(calls[c].run_args)
              /\ InjectedName \notin Range(procs[calls[c].proc].argv)
              /\ <<"/", "bin", "/", "rm">> \in Range(procs[calls[c].proc].argv)

\* C21 witness: with validation on and no escalation, the injected username
\* has been handed to a running child of user_create_new.
C21_Witness ==
  /\ auth.validate
  /\ \E c \in Calls :
       /\ calls[c].op = "user_create_new" /\ ~calls[c].as_sudo
       /\ calls[c].proc # 0 /\ procs[calls[c].proc].status = "running"
       /\ InjectedName \in Range(calls[c].raw_args)

\* C23: every result of __run_cmd with return code 0 has no error text, so
\* its success is the same as return code 0; a child that ended in time with
\* a non-zero exit code has that code reported.
C23_ResultInvariant ==
  \A c \in Calls :
    Reported(c) =>
      /\ calls[c].run_result.return_code = 0 =>
           calls[c].run_result.error_msg = None
      /\ success(calls[c].run_result) <=> calls[c].run_result.return_code = 0
      /\ ~calls[c].timed_out /\ procs[calls[c].proc].code # 0 =>
           calls[c].run_result.return_code = procs[calls[c].proc].code

\* C23 witness: a child ended in time with exit code 2 and text on stderr,
\* and the result was returned.
C23_Witness ==
  \E c \in Calls :
    /\ Reported(c) /\ ~calls[c].timed_out
    /\ procs[calls[c].proc].code = 2
    /\ procs[calls[c].proc].err = ErrText

\* what __run_cmd returns, told from this invocation's own child and timeout
OwnResult(c) ==
  IF calls[c].timed_out THEN VeilResult(1, None, None)
  ELSE VeilResult(IF procs[calls[c].proc].code = 0
                     /\ procs[calls[c].proc].err # <<>>
                  THEN 1 ELSE procs[calls[c].proc].code,
                  IF procs[calls[c].proc].err = <<>> THEN None
                  ELSE Decode(procs[calls[c].proc].err),
                  IF ~calls[c].show_stdout \/ procs[calls[c].proc].out = <<>>
                  THEN None ELSE Decode(procs[calls[c].proc].out))

\* C22: with two invocations running on one engine, each has a child of its
\* own; a termination request names only its own invocation's child, a child
\* is signalled or ended by SIGKILL only when its own invocation timed out,
\* and a returned result is told by the invocation's own child and timeout.
C22_InvocationsIsolated ==
  /\ \A c, d \in DOMAIN calls :
       c # d /\ calls[c].proc # 0 => calls[c].proc # calls[d].proc
  /\ \A c \in DOMAIN calls :
       calls[c].proc # 0 =>
         procs[calls[c].proc].owner = c /\ procs[calls[c].proc].kind = "child"
  /\ \A p \in DOMAIN procs :
       procs[p].kind = "kill" => KillTarget(p) = {calls[procs[p].owner].proc}
  /\ \A p \in DOMAIN procs :
       procs[p].signalled \/ procs[p].code = KILLED =>
         calls[procs[p].owner].timed_out
  /\ \A c \in DOMAIN calls :
       Reported(c) => calls[c].run_result = OwnResult(c)

\* C22 witness: while one invocation's child was still running, the other
\* invocation timed out, had its termination request end its child and
\* returned; later the first child ended by itself and its result came back.
C22_Witness ==
  \E c, d \in DOMAIN calls :
    /\ c # d
    /\ Reported(c) /\ calls[c].timed_out /\ calls[c].kill_proc # 0
    /\ calls[c].proc < calls[d].proc /\ calls[d].proc < calls[c].kill_proc
    /\ procs[calls[c].proc].code = KILLED
    /\ Reported(d) /\ ~calls[d].timed_out
    /\ calls[d].run_result = VeilResult(0, None, <<"1", "\n">>)

====
